---- MODULE Spec2Model ----
(***************************************************************************)
(* Hook dispatch and execution control of the AI Agent Hooks extension:    *)
(* HookExecutor (src/src/hookExecutor.ts), the HookManager operations that *)
(* drive it (src/src/webview/assets/hookManager.js, lines 666-1125) and    *)
(* the multi-step executor (src/src/mcp/multiStepExecutor.ts).             *)
(*                                                                         *)
(* The extension host runs one JavaScript event loop.  A step of the model *)
(* is one task of that loop: the code that runs from the arrival of an     *)
(* editor event, a webview command, a timer or an I/O completion up to the *)
(* point where every coroutine is suspended on a timer or on I/O again.    *)
(* The coroutines are the handler calls; tasks[i] is the i-th call of      *)
(* handleFileEvent / handleFileSystemEvent and holds its position (pc).    *)
(***************************************************************************)
EXTENDS Integers, Sequences, FiniteSets, TLC

(* ------------------------------ bounds -------------------------------- *)
\* handler calls (handleFileEvent / handleFileSystemEvent) in a behaviour
MaxCalls == 3
\* clock ticks in a behaviour
MaxTicks == 1
\* steps of a multi-step (MCP) execution plan
MaxPlanSteps == 1
\* commands of the user in a behaviour: create, toggle, update, delete or
\* stop a hook, reset a cooldown, deactivate the extension
MaxCmds == 1

(* ------------------------- program constants --------------------------- *)
COOLDOWN_MS == 5000
\* granularity of the modelled clock: one cooldown window
TickMs == COOLDOWN_MS
\* Date.now() at start-up: more than one cooldown window after the epoch
StartTime == 2 * COOLDOWN_MS

Files == {"f1", "f2", "f3"}
NoFile == "none"
\* documents whose getText() is the empty string
EmptyDocs == {"f2"}
\* the paths a TARGET_FILE line of an AI response names
TargetFiles == {"f1"}

Hooks == {"h1", "h2", "h3", "h4", "h5"}

\* a Hook record (interface Hook, hookManager.js lines 672-691): the fields
\* the executor reads; scope is the set of paths that filePattern matches
HookRecord(trigger, mode, prio, mcp, scope, status) ==
  [trigger |-> trigger, executionMode |-> mode, priority |-> prio,
   mcp |-> mcp, scope |-> scope, status |-> status,
   isActive |-> (status = "live"), isRunning |-> FALSE]

\* h1..h3 are hooks A(priority 1), B(priority 10), C(priority 5), one per
\* execution mode, all triggered by a save; h4 runs through the multi-step
\* (MCP) executor; h5 listens to file creation and writes its TARGET_FILE
HookA(status) ==
  HookRecord("onDidSaveTextDocument", "single", 1, FALSE, {"f1", "f2"}, status)
HookB(status) ==
  HookRecord("onDidSaveTextDocument", "multiple", 10, FALSE, Files, status)
HookC(status) ==
  HookRecord("onDidSaveTextDocument", "restart", 5, FALSE, {"f1", "f2"}, status)
HookD(status) ==
  HookRecord("onDidSaveTextDocument", "single", 1, TRUE, {"f1", "f2"}, status)
HookE(status) ==
  HookRecord("onDidCreateFiles", "single", 1, FALSE, {"f1", "f2"}, status)

NoHooks ==
  [h1 |-> HookA("none"), h2 |-> HookB("none"), h3 |-> HookC("none"),
   h4 |-> HookD("none"), h5 |-> HookE("none")]

\* the hook lists that loadHooks finds in storage, one per scenario; status
\* "live": stored; "new": added later by createHookFromWebview; "none": no
\* such hook in the scenario
SoloSingle == [NoHooks EXCEPT !.h1 = HookA("live"), !.h2 = HookB("new")]
SoloMultiple == [NoHooks EXCEPT !.h2 = HookB("live")]
SoloRestart == [NoHooks EXCEPT !.h3 = HookC("live")]
SoloMcp == [NoHooks EXCEPT !.h4 = HookD("live")]
SoloCreate == [NoHooks EXCEPT !.h5 = HookE("live")]
Trio ==
  [NoHooks EXCEPT !.h1 = HookA("live"), !.h2 = HookB("live"), !.h3 = HookC("live")]

\* registerHook's switch: the handler and event type each trigger subscribes
TriggerTable ==
  [onDidSaveTextDocument   |-> [handler |-> "handleFileEvent", type |-> "save"],
   onDidChangeTextDocument |-> [handler |-> "handleFileEvent", type |-> "change"],
   onDidOpenTextDocument   |-> [handler |-> "handleFileEvent", type |-> "open"],
   onDidCreateFiles        |-> [handler |-> "handleFileSystemEvent", type |-> "create"],
   onDidDeleteFiles        |-> [handler |-> "handleFileSystemEvent", type |-> "delete"]]

Triggers == DOMAIN TriggerTable

VARIABLES
  hooks,              \* HookManager.hooks and the Hook objects: id -> Hook record
  pendingReg,         \* create/update calls suspended in saveHooks before registerHook
  fileWatchers,       \* HookExecutor.fileWatchers: hook ids in subscription order
  lastExecution,      \* HookExecutor.lastExecution: <<hook, file>> -> time
  processingFiles,    \* HookExecutor.processingFiles: set of <<hook, file>>
  hookGeneratedFiles, \* HookExecutor.hookGeneratedFiles
  runningHooks,       \* HookExecutor.runningHooks: hook id -> controller (task id)
  executionQueue,     \* HookExecutor.executionQueue: file -> array (id)
  arrays,             \* the queue arrays: array id -> sequence of task ids
  tasks,              \* the handler calls, in call order
  dequeued,           \* task ids in the order processExecutionQueue shifted them
  now,                \* Date.now()
  disposed,           \* deactivate() ran: no further events or commands
  cmds,               \* commands of the user so far
  filePath,           \* matchesFilePattern's argument filePath
  filePattern,        \* hook.filePattern of the hook passed to matchesFilePattern
  matched,            \* what the call did: "idle" before it, then its outcome
  cooldownCall        \* a direct canExecuteAfterCooldown call: its key and result

vars == <<hooks, pendingReg, fileWatchers, lastExecution, processingFiles,
          hookGeneratedFiles, runningHooks, executionQueue, arrays, tasks,
          dequeued, now, disposed, cmds, filePath, filePattern, matched,
          cooldownCall>>

\* the executor's and manager's state as one value
Cur ==
  [hooks |-> hooks, pendingReg |-> pendingReg, fileWatchers |-> fileWatchers,
   lastExecution |-> lastExecution, processingFiles |-> processingFiles,
   hookGeneratedFiles |-> hookGeneratedFiles, runningHooks |-> runningHooks,
   executionQueue |-> executionQueue, arrays |-> arrays, tasks |-> tasks,
   dequeued |-> dequeued, now |-> now, disposed |-> disposed, cmds |-> cmds]

Commit(s) ==
  /\ hooks' = s.hooks
  /\ pendingReg' = s.pendingReg
  /\ fileWatchers' = s.fileWatchers
  /\ lastExecution' = s.lastExecution
  /\ processingFiles' = s.processingFiles
  /\ hookGeneratedFiles' = s.hookGeneratedFiles
  /\ runningHooks' = s.runningHooks
  /\ executionQueue' = s.executionQueue
  /\ arrays' = s.arrays
  /\ tasks' = s.tasks
  /\ dequeued' = s.dequeued
  /\ now' = s.now
  /\ disposed' = s.disposed
  /\ cmds' = s.cmds
  /\ UNCHANGED <<filePath, filePattern, matched, cooldownCall>>

(* ------------------------------ helpers ------------------------------- *)
\* Map.delete / Map.set on a function with a finite domain
MapDelete(m, k) == [x \in DOMAIN m \ {k} |-> m[x]]
MapSet(m, k, v) == [x \in DOMAIN m \cup {k} |-> IF x = k THEN v ELSE m[x]]
EmptyMap == [x \in {} |-> 0]

SeqWithout(q, x) == SelectSeq(q, LAMBDA y : y # x)

\* a key that leaves the file out
hookFileKeyWithoutFile(h, f) == <<h, NoFile>>

\* const hookFileKey = `${hook.id}:${context.file}`
hookFileKey(h, f) == <<h, f>>

\* a handler call just entered
NewTask(h, f, type, content, batch) ==
  [hook |-> h, file |-> f, type |-> type, content |-> content,
   pc |-> "called", drop |-> "none", by |-> 0, dq |-> 0, dst |-> "none",
   begins |-> 0, ends |-> 0, aborted |-> FALSE, notes |-> <<>>,
   target |-> NoFile, steps |-> 0, wrote |-> NoFile, marked |-> NoFile,
   batch |-> batch, prev |-> {}]

SetPc(s, t, pc) == [s EXCEPT !.tasks[t].pc = pc]

\* the call has settled without an execution
Dropped(s, t, why) == [s EXCEPT !.tasks[t].pc = "done", !.tasks[t].drop = why]

\* an execution is in flight: between runningHooks.set and its finally block
InFlight(r) == r.begins > r.ends

(* --------------------------- HookManager ------------------------------ *)
\* HookManager.updateHookStatus, reached through notifyHookManager: the
\* dynamic import resolves in the same task of the event loop
updateHookStatus(s, h, isRunning) ==
  IF s.hooks[h].status = "live"
    THEN [s EXCEPT !.hooks[h].isRunning = isRunning]
    ELSE s

notifyHookManager(s, h, isRunning) == updateHookStatus(s, h, isRunning)

(* --------------------------- HookExecutor ----------------------------- *)
\* abortController.abort() on the handle stored for the hook, if any
stopRunningHook(s, h) ==
  IF h \in DOMAIN s.runningHooks
    THEN [s EXCEPT !.tasks[s.runningHooks[h]].aborted = TRUE]
    ELSE s

\* a cooldown check that never finds the stored entry
canExecuteAfterCooldownNoEntry(s, key) ==
  LET lastExecTime == 0
      timeSinceLastExec == s.now - lastExecTime
  IN  ~(timeSinceLastExec < COOLDOWN_MS)

canExecuteAfterCooldownInclusive(s, key) ==
  LET lastExecTime == IF key \in DOMAIN s.lastExecution
                        THEN s.lastExecution[key] ELSE 0
      timeSinceLastExec == s.now - lastExecTime
  IN  ~(timeSinceLastExec <= COOLDOWN_MS)

canExecuteAfterCooldown(s, key) ==
  LET lastExecTime == IF key \in DOMAIN s.lastExecution
                        THEN s.lastExecution[key] ELSE 0
      timeSinceLastExec == s.now - lastExecTime
  IN  ~(timeSinceLastExec < COOLDOWN_MS)

\* queue.sort((a, b) => b.hook.priority - a.hook.priority): a stable sort,
\* here the insertion of the pushed entry into the sorted rest
RECURSIVE sortByPriority(_, _)
sortByPriority(s, q) ==
  IF Len(q) <= 1 THEN q
  ELSE LET rest == sortByPriority(s, SubSeq(q, 1, Len(q) - 1))
           x == q[Len(q)]
           before == SelectSeq(rest, LAMBDA y :
                       s.hooks[s.tasks[y].hook].priority >= s.hooks[s.tasks[x].hook].priority)
           after == SelectSeq(rest, LAMBDA y :
                       s.hooks[s.tasks[y].hook].priority < s.hooks[s.tasks[x].hook].priority)
       IN  before \o <<x>> \o after

RECURSIVE drainLoop(_, _, _)

\* scheduleHookExecution has returned to processExecutionQueue (lines
\* 306-311): the pacing wait if entries remain, else the next iteration
scheduleReturned(s, t, env) ==
  LET d == s.tasks[t].by
      s1 == SetPc(s, t, "done")
  IN  IF Len(s1.arrays[s1.tasks[d].dq]) > 0
        THEN [s1 EXCEPT !.tasks[d].dst = "pace"]
        ELSE drainLoop(s1, d, env)

\* a finally block that forgets runningHooks.delete
executeHookFinallyWithoutDelete(s, t) ==
  notifyHookManager(s, s.tasks[t].hook, FALSE)

\* the finally block of executeHook
executeHookFinally(s, t) ==
  LET h == s.tasks[t].hook
      s1 == [s EXCEPT !.runningHooks = MapDelete(@, h),
                      !.tasks[t].ends = @ + 1]
  IN  notifyHookManager(s1, h, FALSE)

\* a guard that is not released when the execution is over
executeHookWithChecksKeepsGuard(s, t) == s

\* the finally block of executeHookWithChecks
executeHookWithChecksFinally(s, t) ==
  [s EXCEPT !.processingFiles =
     @ \ {hookFileKey(s.tasks[t].hook, s.tasks[t].file)}]

\* executeHook leaves its try block, normally ("ok") or by a throw: the
\* terminal notification, the two finally blocks, the return to the drain
executeHookEnds(s, t, outcome, env) ==
  LET r == s.tasks[t]
      note == IF outcome = "ok"
                THEN (IF r.aborted THEN <<>> ELSE <<"success">>)
                ELSE (IF r.aborted THEN <<"stopped">> ELSE <<"error">>)
      s1 == [s EXCEPT !.tasks[t].notes = @ \o note, !.tasks[t].steps = 0]
  IN  scheduleReturned(
        executeHookWithChecksFinally(executeHookFinally(s1, t), t), t, env)

\* markGenerated: this.hookGeneratedFiles.add(path) after a successful save
markGenerated(s, t, f) ==
  [s EXCEPT !.hookGeneratedFiles = @ \cup {f}, !.tasks[t].marked = f]

\* executeHook up to its first suspension
executeHook(s, t, env) ==
  LET h == s.tasks[t].hook
      s1 == [s EXCEPT !.runningHooks = MapSet(@, h, t),
                      !.tasks[t].begins = @ + 1]
      s2 == notifyHookManager(s1, h, TRUE)
  IN  IF s.hooks[h].mcp
        THEN IF env = "noRoot" \/ env = "noProvider"
               THEN executeHookEnds(s2, t, "throw", env)
               ELSE SetPc(s2, t, "mcpPlan")
        ELSE IF env = "noProvider"
               THEN executeHookEnds(s2, t, "throw", env)
               ELSE SetPc(s2, t, "send")

executeHookWithChecksStampsFirst(s, t, env) ==
  LET key == hookFileKey(s.tasks[t].hook, s.tasks[t].file)
      s1 == [s EXCEPT !.lastExecution = MapSet(@, key, s.now)]
  IN  IF key \in s.processingFiles
        THEN scheduleReturned(Dropped(s1, t, "processing"), t, env)
        ELSE executeHook([s1 EXCEPT !.processingFiles = @ \cup {key}], t, env)

executeHookWithChecks(s, t, env) ==
  LET key == hookFileKey(s.tasks[t].hook, s.tasks[t].file)
  IN  IF key \in s.processingFiles
        THEN scheduleReturned(Dropped(s, t, "processing"), t, env)
        ELSE executeHook(
               [s EXCEPT !.processingFiles = @ \cup {key},
                         !.lastExecution = MapSet(@, key, s.now)], t, env)

\* a scheduler whose single mode does not look at runningHooks
scheduleHookExecutionNoRunningCheck(s0, t, env) ==
  LET h == s0.tasks[t].hook
      key == hookFileKey(h, s0.tasks[t].file)
      s == [s0 EXCEPT !.tasks[t].prev =
              {i \in 1..Len(s0.tasks) :
                 s0.tasks[i].hook = h /\ InFlight(s0.tasks[i])}]
  IN  CASE s.hooks[h].executionMode = "multiple" -> executeHookWithChecks(s, t, env)
        [] s.hooks[h].executionMode = "single" ->
             IF ~canExecuteAfterCooldown(s, key)
               THEN scheduleReturned(Dropped(s, t, "cooldown"), t, env)
               ELSE executeHookWithChecks(s, t, env)
        [] s.hooks[h].executionMode = "restart" ->
             IF h \in DOMAIN s.runningHooks
               THEN SetPc(stopRunningHook(s, h), t, "restartWait")
               ELSE executeHookWithChecks(s, t, env)

scheduleHookExecution(s0, t, env) ==
  LET h == s0.tasks[t].hook
      key == hookFileKey(h, s0.tasks[t].file)
      s == [s0 EXCEPT !.tasks[t].prev =
              {i \in 1..Len(s0.tasks) :
                 s0.tasks[i].hook = h /\ InFlight(s0.tasks[i])}]
  IN  CASE s.hooks[h].executionMode = "multiple" -> executeHookWithChecks(s, t, env)
        [] s.hooks[h].executionMode = "single" ->
             IF h \in DOMAIN s.runningHooks
               THEN scheduleReturned(Dropped(s, t, "running"), t, env)
             ELSE IF ~canExecuteAfterCooldown(s, key)
               THEN scheduleReturned(Dropped(s, t, "cooldown"), t, env)
             ELSE executeHookWithChecks(s, t, env)
        [] s.hooks[h].executionMode = "restart" ->
             IF h \in DOMAIN s.runningHooks
               THEN SetPc(stopRunningHook(s, h), t, "restartWait")
               ELSE executeHookWithChecks(s, t, env)

\* a drain loop that leaves the emptied queue in executionQueue
drainLoopWithoutCleanup(s, d, env) ==
  LET q == s.tasks[d].dq
  IN  IF Len(s.arrays[q]) > 0
        THEN LET e == Head(s.arrays[q])
                 s1 == [s EXCEPT !.arrays[q] = Tail(@),
                                 !.tasks[e].by = d,
                                 !.tasks[e].pc = "scheduled",
                                 !.dequeued = Append(@, e)]
             IN  scheduleHookExecution(s1, e, env)
        ELSE [s EXCEPT !.tasks[d].dst = "ended"]

\* the while loop of processExecutionQueue, run by the drain that task d
\* started, from the loop test to the next suspension (or to the clean-up)
drainLoop(s, d, env) ==
  LET q == s.tasks[d].dq
  IN  IF Len(s.arrays[q]) > 0
        THEN LET e == Head(s.arrays[q])
                 s1 == [s EXCEPT !.arrays[q] = Tail(@),
                                 !.tasks[e].by = d,
                                 !.tasks[e].pc = "scheduled",
                                 !.dequeued = Append(@, e)]
             IN  scheduleHookExecution(s1, e, env)
        ELSE [s EXCEPT !.executionQueue = MapDelete(@, s.tasks[d].file),
                       !.tasks[d].dst = "ended"]

processExecutionQueue(s, t, env) ==
  LET f == s.tasks[t].file
  IN  IF f \notin DOMAIN s.executionQueue \/ Len(s.arrays[s.executionQueue[f]]) = 0
        THEN s
        ELSE drainLoop([s EXCEPT !.tasks[t].dq = s.executionQueue[f],
                                 !.tasks[t].dst = "active"], t, env)

enqueueHookExecutionPushOnly(s, t, env) ==
  LET f == s.tasks[t].file
      s1 == IF f \notin DOMAIN s.executionQueue
              THEN [s EXCEPT !.executionQueue = MapSet(@, f, t),
                             !.arrays = MapSet(@, t, <<>>)]
              ELSE s
      q == s1.executionQueue[f]
  IN  [s1 EXCEPT !.arrays[q] = sortByPriority(s1, Append(@, t)),
                 !.tasks[t].pc = "queued"]

enqueueHookExecution(s, t, env) ==
  LET f == s.tasks[t].file
      s1 == IF f \notin DOMAIN s.executionQueue
              THEN [s EXCEPT !.executionQueue = MapSet(@, f, t),
                             !.arrays = MapSet(@, t, <<>>)]
              ELSE s
      q == s1.executionQueue[f]
      s2 == [s1 EXCEPT !.arrays[q] = sortByPriority(s1, Append(@, t)),
                       !.tasks[t].pc = "queued"]
  IN  IF Len(s2.arrays[q]) = 1
        THEN processExecutionQueue(s2, t, env)
        ELSE s2

matchesFilePattern(s, f, h) == f \in s.hooks[h].scope

handleFileEvent(s, h, f, type, content, batch, env) ==
  LET t == Len(s.tasks) + 1
      s1 == [s EXCEPT !.tasks = Append(@, NewTask(h, f, type, content, batch))]
  IN  IF f \in s1.hookGeneratedFiles
        THEN Dropped([s1 EXCEPT !.hookGeneratedFiles = @ \ {f}], t, "generated")
      ELSE IF ~matchesFilePattern(s, f, h)
        THEN Dropped(s1, t, "nomatch")
      ELSE enqueueHookExecution(s1, t, env)

handleFileSystemEvent(s, h, f, type, batch, env) ==
  LET t == Len(s.tasks) + 1
      s1 == [s EXCEPT !.tasks = Append(@, NewTask(h, f, type, FALSE, batch))]
  IN  IF ~matchesFilePattern(s, f, h)
        THEN Dropped(s1, t, "nomatch")
        ELSE enqueueHookExecution(s1, t, env)

\* resetCooldown(hookId, filePath?)
resetCooldown(s, h, f) ==
  LET keys == IF f # NoFile
                THEN {hookFileKey(h, f)}
                ELSE {k \in DOMAIN s.lastExecution : k[1] = h}
  IN  [s EXCEPT !.lastExecution = [k \in DOMAIN @ \ keys |-> @[k]],
                !.processingFiles = @ \ keys]

disposeHookWatchers(s, h) ==
  [s EXCEPT !.fileWatchers = SeqWithout(@, h)]

unregisterHook(s, h) == disposeHookWatchers(s, h)

registerHook(s, h) ==
  IF ~s.hooks[h].isActive
    THEN s
    ELSE LET s1 == disposeHookWatchers(s, h)
         IN  [s1 EXCEPT !.fileWatchers = Append(@, h)]

\* HookExecutor.dispose
dispose(s) ==
  [s EXCEPT !.tasks = [i \in DOMAIN @ |->
                         IF \E h \in DOMAIN s.runningHooks : s.runningHooks[h] = i
                           THEN [@[i] EXCEPT !.aborted = TRUE] ELSE @[i]],
            !.runningHooks = EmptyMap,
            !.fileWatchers = <<>>,
            !.lastExecution = EmptyMap,
            !.processingFiles = {},
            !.hookGeneratedFiles = {},
            !.executionQueue = EmptyMap,
            !.disposed = TRUE]

(* ------------------------ the run-hook unit --------------------------- *)
IsFileSystemEvent(r) == r.type = "create" \/ r.type = "delete"

\* executeHook resumes after `await provider.sendMessage(prompt)` (line 463)
\* and runs applyChanges up to its first await
afterSendMessage(s, t, res, tgt, env) ==
  LET r == s.tasks[t]
  IN  IF res = "fail" THEN executeHookEnds(s, t, "throw", env)
      ELSE IF r.aborted THEN executeHookEnds(s, t, "throw", env)
      ELSE IF ~r.content /\ ~IsFileSystemEvent(r)
        THEN executeHookEnds(s, t, "ok", env)
      ELSE IF ~r.content
        THEN IF tgt = NoFile
               THEN executeHookEnds(s, t, "ok", env)
               ELSE [s EXCEPT !.tasks[t].pc = "open", !.tasks[t].target = tgt]
      ELSE [s EXCEPT !.tasks[t].pc = "open", !.tasks[t].target = r.file]

\* applyChanges resumes after openTextDocument (lines 591, 648)
afterOpenTextDocument(s, t, res, env) ==
  LET r == s.tasks[t]
  IN  IF IsFileSystemEvent(r) \/ res = "ok"
        THEN SetPc(s, t, "save")
        ELSE executeHookEnds([s EXCEPT !.tasks[t].target = NoFile], t, "throw", env)

\* applyChanges resumes after applyEdit and document.save (lines 614-619,
\* 656-657)
afterSave(s, t, res, env) ==
  LET r == s.tasks[t]
      s1 == [s EXCEPT !.tasks[t].target = NoFile]
      saved == markGenerated([s1 EXCEPT !.tasks[t].wrote = r.target], t, r.target)
  IN  IF res = "ok" THEN executeHookEnds(saved, t, "ok", env)
      ELSE IF IsFileSystemEvent(r) THEN executeHookEnds(s1, t, "ok", env)
      ELSE executeHookEnds(s1, t, "throw", env)

StepTypes == {"mcp_tool", "ai_reasoning", "file_modification"}

\* MultiStepExecutor.executePlan / executeStep: the next step of the plan
\* (nxt = "end": the plan has no further step) up to its first await
executePlan(s, t, nxt, env) ==
  CASE nxt = "end" -> executeHookEnds(s, t, "ok", env)
    [] nxt = "mcp_tool" ->
         [s EXCEPT !.tasks[t].pc = "mcpTool", !.tasks[t].steps = @ + 1]
    [] nxt = "ai_reasoning" ->
         IF env = "noProvider"
           THEN executeHookEnds(s, t, "throw", env)
           ELSE [s EXCEPT !.tasks[t].pc = "mcpReason", !.tasks[t].steps = @ + 1]
    [] nxt = "file_modification" ->
         [s EXCEPT !.tasks[t].pc = "mcpOpen", !.tasks[t].steps = @ + 1]

\* the multi-step execution resumes from the await it is suspended on
afterMcpAwait(s, t, res, nxt, env) ==
  LET r == s.tasks[t]
  IN  IF res = "fail" THEN executeHookEnds(s, t, "throw", env)
      ELSE CASE r.pc \in {"mcpPlan", "mcpTool", "mcpReason"} ->
                  executePlan(s, t, nxt, env)
             [] r.pc = "mcpOpen" ->
                  IF env = "noProvider"
                    THEN executeHookEnds(s, t, "throw", env)
                    ELSE SetPc(s, t, "mcpSend")
             [] r.pc = "mcpSend" -> SetPc(s, t, "mcpSave")
             [] r.pc = "mcpSave" ->
                  executePlan([s EXCEPT !.tasks[t].wrote = r.file], t, nxt, env)

\* a setTimeout fires: the 100 ms wait of restart mode (line 360) or the
\* 500 ms pacing wait of the drain loop (line 310)
afterTimeout(s, t, env) ==
  IF s.tasks[t].pc = "restartWait"
    THEN executeHookWithChecks(s, t, env)
    ELSE drainLoop([s EXCEPT !.tasks[t].dst = "active"], t, env)

(* -------------------------- event delivery ---------------------------- *)
\* the listeners of one event type, in subscription order
ListenersOf(s, type) ==
  SelectSeq(s.fileWatchers,
            LAMBDA h : TriggerTable[s.hooks[h].trigger].type = type)

\* the editor fires the event: each listener registered by registerHook
\* (lines 46-117) calls its handler
RECURSIVE fireEvent(_, _, _, _, _, _, _)
fireEvent(s, ls, type, f, content, batch, env) ==
  IF ls = <<>> THEN s
  ELSE LET h == Head(ls)
           s1 == IF TriggerTable[s.hooks[h].trigger].handler = "handleFileEvent"
                   THEN handleFileEvent(s, h, f, type, content, batch, env)
                   ELSE handleFileSystemEvent(s, h, f, type, batch, env)
       IN  fireEvent(s1, Tail(ls), type, f, content, batch, env)

EventTypes == {TriggerTable[g].type : g \in Triggers}
Envs == {"ok", "noProvider", "noRoot"}
Results == {"ok", "fail"}

(* ------------------------------ actions ------------------------------- *)
\* HookManager.initialize / loadHooks: the stored hooks, the active ones
\* registered in stored order
Scenarios == {SoloSingle, SoloMultiple, SoloRestart, SoloMcp, SoloCreate, Trio}
StoredOrder == <<"h1", "h2", "h3", "h4", "h5">>

\* no direct call of canExecuteAfterCooldown was made
NoCooldownCall == [called |-> FALSE, key |-> <<NoFile, NoFile>>, result |-> FALSE]

Init ==
  /\ hooks \in Scenarios
  /\ pendingReg = {}
  /\ fileWatchers = SelectSeq(StoredOrder, LAMBDA h : hooks[h].isActive)
  /\ lastExecution = EmptyMap
  /\ processingFiles = {}
  /\ hookGeneratedFiles = {}
  /\ runningHooks = EmptyMap
  /\ executionQueue = EmptyMap
  /\ arrays = EmptyMap
  /\ tasks = <<>>
  /\ dequeued = <<>>
  /\ now = StartTime
  /\ disposed = FALSE
  /\ cmds = 0
  /\ filePath = <<>>
  /\ filePattern = <<>>
  /\ matched = "idle"
  /\ cooldownCall = NoCooldownCall

\* an editor or file-system event for file f
FileEvent ==
  \E type \in EventTypes, f \in Files, env \in Envs :
    LET ls == ListenersOf(Cur, type)
    IN  /\ ~disposed
        /\ ls # <<>>
        /\ Len(tasks) + Len(ls) <= MaxCalls
        /\ Commit(fireEvent(Cur, ls, type, f, f \notin EmptyDocs,
                             Len(tasks) + 1, env))

AiResponds ==
  \E t \in DOMAIN tasks, res \in Results, tgt \in TargetFiles \cup {NoFile}, env \in Envs :
    /\ tasks[t].pc = "send"
    /\ Commit(afterSendMessage(Cur, t, res, tgt, env))

DocumentOpened ==
  \E t \in DOMAIN tasks, res \in Results, env \in Envs :
    /\ tasks[t].pc = "open"
    /\ Commit(afterOpenTextDocument(Cur, t, res, env))

DocumentSaved ==
  \E t \in DOMAIN tasks, res \in Results, env \in Envs :
    /\ tasks[t].pc = "save"
    /\ Commit(afterSave(Cur, t, res, env))

McpProgress ==
  \E t \in DOMAIN tasks, res \in Results, nxt \in StepTypes \cup {"end"}, env \in Envs :
    /\ tasks[t].pc \in {"mcpPlan", "mcpTool", "mcpReason", "mcpOpen", "mcpSend", "mcpSave"}
    /\ (nxt # "end" => tasks[t].steps < MaxPlanSteps)
    /\ Commit(afterMcpAwait(Cur, t, res, nxt, env))

TimerFires ==
  \E t \in DOMAIN tasks, env \in Envs :
    /\ tasks[t].pc = "restartWait" \/ tasks[t].dst = "pace"
    /\ Commit(afterTimeout(Cur, t, env))

\* createHookFromWebview up to `await this.saveHooks()`
CreateHookWithin(limit) ==
  \E h \in Hooks :
    /\ ~disposed /\ cmds < limit
    /\ hooks[h].status = "new"
    /\ hooks' = [hooks EXCEPT ![h].status = "live", ![h].isActive = TRUE,
                              ![h].isRunning = FALSE]
    /\ pendingReg' = pendingReg \cup {h}
    /\ cmds' = cmds + 1
    /\ UNCHANGED <<fileWatchers, lastExecution, processingFiles, hookGeneratedFiles,
                   runningHooks, executionQueue, arrays, tasks, dequeued, now, disposed,
                   filePath, filePattern, matched, cooldownCall>>

CreateHook == CreateHookWithin(MaxCmds)

\* updateHookFromWebview up to `await this.saveHooks()`
UpdateHookWithin(limit) ==
  \E h \in Hooks :
    /\ ~disposed /\ cmds < limit
    /\ hooks[h].status = "live" /\ h \notin pendingReg
    /\ Commit([unregisterHook(Cur, h) EXCEPT !.pendingReg = @ \cup {h},
                                             !.cmds = @ + 1])

UpdateHook == UpdateHookWithin(MaxCmds)

\* createHookFromWebview / updateHookFromWebview after saveHooks:
\* if (hook.isActive) this.hookExecutor.registerHook(hook)
HooksSaved ==
  \E h \in pendingReg :
    Commit([registerHook(Cur, h) EXCEPT !.pendingReg = @ \ {h}])

ToggleHookWithin(limit) ==
  \E h \in Hooks :
    /\ ~disposed /\ cmds < limit
    /\ hooks[h].status = "live"
    /\ LET s1 == [Cur EXCEPT !.hooks[h].isActive = ~@, !.cmds = @ + 1]
       IN  Commit(IF s1.hooks[h].isActive THEN registerHook(s1, h)
                                          ELSE unregisterHook(s1, h))

ToggleHook == ToggleHookWithin(MaxCmds)

DeleteHookWithin(limit) ==
  \E h \in Hooks :
    /\ ~disposed /\ cmds < limit
    /\ hooks[h].status = "live"
    /\ Commit([unregisterHook(Cur, h) EXCEPT !.hooks[h].status = "deleted",
                                             !.cmds = @ + 1])

DeleteHook == DeleteHookWithin(MaxCmds)

\* stopHookFromWebview
StopHook ==
  \E h \in Hooks :
    /\ ~disposed /\ cmds < MaxCmds
    /\ hooks[h].status = "live"
    /\ Commit([stopRunningHook(Cur, h) EXCEPT !.hooks[h].isRunning = FALSE,
                                             !.cmds = @ + 1])

ResetCooldown ==
  \E h \in Hooks, f \in Files \cup {NoFile} :
    /\ ~disposed /\ cmds < MaxCmds
    /\ hooks[h].status = "live"
    /\ Commit([resetCooldown(Cur, h, f) EXCEPT !.cmds = @ + 1])

Dispose ==
  /\ ~disposed /\ cmds < MaxCmds
  /\ Commit([dispose(Cur) EXCEPT !.cmds = @ + 1])

Tick ==
  /\ now < StartTime + MaxTicks * TickMs
  /\ now' = now + TickMs
  /\ UNCHANGED <<hooks, pendingReg, fileWatchers, lastExecution, processingFiles,
                 hookGeneratedFiles, runningHooks, executionQueue, arrays, tasks,
                 dequeued, disposed, cmds, filePath, filePattern, matched,
                 cooldownCall>>

Next ==
  \/ FileEvent
  \/ AiResponds
  \/ DocumentOpened
  \/ DocumentSaved
  \/ McpProgress
  \/ TimerFires
  \/ CreateHook
  \/ UpdateHook
  \/ HooksSaved
  \/ ToggleHook
  \/ DeleteHook
  \/ StopHook
  \/ ResetCooldown
  \/ Dispose
  \/ Tick

Spec == Init /\ [][Next]_vars

(* ------------------------- the manager's commands --------------------- *)
\* The hook commands of the webview alone, several of them in a row and
\* overlapping at their `await this.saveHooks()`, and the executor's
\* registerHook / unregisterHook called directly.
MaxMgmt == 3

RegisterHook ==
  \E h \in Hooks :
    /\ ~disposed /\ cmds < MaxMgmt
    /\ hooks[h].status = "live"
    /\ Commit([registerHook(Cur, h) EXCEPT !.cmds = @ + 1])

UnregisterHook ==
  \E h \in Hooks :
    /\ ~disposed /\ cmds < MaxMgmt
    /\ hooks[h].status = "live"
    /\ Commit([unregisterHook(Cur, h) EXCEPT !.cmds = @ + 1])

NextManage ==
  \/ CreateHookWithin(MaxMgmt)
  \/ UpdateHookWithin(MaxMgmt)
  \/ HooksSaved
  \/ ToggleHookWithin(MaxMgmt)
  \/ DeleteHookWithin(MaxMgmt)
  \/ RegisterHook
  \/ UnregisterHook

SpecManage == Init /\ [][NextManage]_vars

(* --------------------------- the file matcher ------------------------- *)
\* Strings are sequences of one-character strings.
MaxPathLen == 5
PathChars == {"a", "s", "t", "T", ".", "/", "\\"}
Paths == UNION {[1..n -> PathChars] : n \in 0..MaxPathLen}

\* String.prototype.toLowerCase on the characters in use
toLowerCaseChar(c) == IF c = "T" THEN "t" ELSE c
toLowerCase(str) == [i \in 1..Len(str) |-> toLowerCaseChar(str[i])]

endsWith(str, suffix) ==
  /\ Len(str) >= Len(suffix)
  /\ SubSeq(str, Len(str) - Len(suffix) + 1, Len(str)) = suffix

startsWith(str, prefix) ==
  /\ Len(str) >= Len(prefix)
  /\ SubSeq(str, 1, Len(prefix)) = prefix

\* str.replace(/c/g, repl) for a one-character c
RECURSIVE replaceAll(_, _, _)
replaceAll(str, c, repl) ==
  IF str = <<>> THEN <<>>
  ELSE (IF Head(str) = c THEN repl ELSE <<Head(str)>>)
         \o replaceAll(Tail(str), c, repl)

\* str.replace(/\*\*/g, ".*"): leftmost, non-overlapping pairs of stars
RECURSIVE replaceDoubleStar(_)
replaceDoubleStar(str) ==
  IF str = <<>> THEN <<>>
  ELSE IF Len(str) >= 2 /\ str[1] = "*" /\ str[2] = "*"
    THEN <<".", "*">> \o replaceDoubleStar(SubSeq(str, 3, Len(str)))
  ELSE <<Head(str)>> \o replaceDoubleStar(Tail(str))

\* str.split(","): the pieces between the commas
RECURSIVE split(_, _)
split(str, acc) ==
  IF str = <<>> THEN <<acc>>
  ELSE IF Head(str) = "," THEN <<acc>> \o split(Tail(str), <<>>)
  ELSE split(Tail(str), Append(acc, Head(str)))

RECURSIVE trimStart(_)
trimStart(str) ==
  IF str # <<>> /\ Head(str) = " " THEN trimStart(Tail(str)) ELSE str

RECURSIVE trimEnd(_)
trimEnd(str) ==
  IF str # <<>> /\ str[Len(str)] = " "
    THEN trimEnd(SubSeq(str, 1, Len(str) - 1)) ELSE str

trim(str) == trimEnd(trimStart(str))

\* the source text of the regular expression matchesGlobPattern builds
withStart(r) == IF startsWith(r, <<".", "*">>) THEN r ELSE <<".", "*">> \o r
withEnd(r) == IF endsWith(r, <<"$">>) THEN r ELSE Append(r, "$")

globToRegex(normalizedPattern) ==
  withEnd(withStart(
    replaceAll(
      replaceAll(
        replaceDoubleStar(replaceAll(normalizedPattern, ".", <<"\\", ".">>)),
        "*", <<"[", "^", "/", "]", "*">>),
      "?", <<"[", "^", "/", "]">>)))

\* new RegExp(source, "i"): the source parsed into atoms, for the syntax the
\* conversion can produce from the patterns in use: literal characters,
\* escaped characters, `.`, character classes, `$`, each optionally starred.
RECURSIVE classEnd(_, _)
classEnd(r, i) ==
  IF i > Len(r) THEN 0
  ELSE IF r[i] = "]" THEN i
  ELSE IF r[i] = "\\" THEN classEnd(r, i + 2)
  ELSE classEnd(r, i + 1)

classAtom(body) ==
  LET neg == body # <<>> /\ Head(body) = "^"
      rest == IF neg THEN Tail(body) ELSE body
  IN  [kind |-> "class", neg |-> neg,
       chars |-> {toLowerCaseChar(rest[i]) : i \in {j \in 1..Len(rest) : rest[j] # "\\"}},
       star |-> FALSE]

LitAtom(c) ==
  [kind |-> "class", neg |-> FALSE, chars |-> {toLowerCaseChar(c)}, star |-> FALSE]
AnyAtom == [kind |-> "class", neg |-> TRUE, chars |-> {}, star |-> FALSE]
EndAtom == [kind |-> "end", neg |-> FALSE, chars |-> {}, star |-> FALSE]

BadAtom == [kind |-> "bad", neg |-> FALSE, chars |-> {}, star |-> FALSE]

\* the atom at the head of r, the length of its text in r included
firstAtom(r, e) ==
  LET c == Head(r)
  IN  IF \/ c \in {"*", "(", ")", "+"}
         \/ c = "\\" /\ Len(r) < 2
         \/ c = "[" /\ e = 0
        THEN [atom |-> BadAtom, n |-> Len(r)]
      ELSE IF c = "\\" THEN [atom |-> LitAtom(r[2]), n |-> 2]
      ELSE IF c = "[" THEN [atom |-> classAtom(SubSeq(r, 2, e - 1)), n |-> e]
      ELSE IF c = "." THEN [atom |-> AnyAtom, n |-> 1]
      ELSE IF c = "$" THEN [atom |-> EndAtom, n |-> 1]
      ELSE [atom |-> LitAtom(c), n |-> 1]

RECURSIVE parseFrom(_, _)
parseFrom(r, first) ==
  IF first.n < Len(r) /\ r[first.n + 1] = "*" /\ first.atom.kind = "class"
    THEN <<[first.atom EXCEPT !.star = TRUE]>>
           \o (IF first.n + 1 = Len(r) THEN <<>>
               ELSE parseFrom(SubSeq(r, first.n + 2, Len(r)),
                              firstAtom(SubSeq(r, first.n + 2, Len(r)),
                                        classEnd(SubSeq(r, first.n + 2, Len(r)), 2))))
  ELSE <<first.atom>>
         \o (IF first.n = Len(r) THEN <<>>
             ELSE parseFrom(SubSeq(r, first.n + 1, Len(r)),
                            firstAtom(SubSeq(r, first.n + 1, Len(r)),
                                      classEnd(SubSeq(r, first.n + 1, Len(r)), 2))))

\* the atoms of the source; a "bad" atom where the constructor throws
RegExp(r) == IF r = <<>> THEN <<>> ELSE parseFrom(r, firstAtom(r, classEnd(r, 2)))

Hit(atom, c) == (toLowerCaseChar(c) \in atom.chars) # atom.neg

\* the atoms from i on match str at position j (backtracking)
RECURSIVE matchAt(_, _, _, _)
matchAt(atoms, i, str, j) ==
  IF i > Len(atoms) THEN TRUE
  ELSE IF atoms[i].kind = "end"
    THEN j = Len(str) + 1 /\ matchAt(atoms, i + 1, str, j)
  ELSE IF atoms[i].star
    THEN \/ matchAt(atoms, i + 1, str, j)
         \/ j <= Len(str) /\ Hit(atoms[i], str[j]) /\ matchAt(atoms, i, str, j + 1)
  ELSE j <= Len(str) /\ Hit(atoms[i], str[j]) /\ matchAt(atoms, i + 1, str, j + 1)

\* RegExp.prototype.test: a match starting anywhere
test(atoms, str) == \E k \in 1..(Len(str) + 1) : matchAt(atoms, 1, str, k)

testOrThrow(atoms, str) ==
  IF \E i \in 1..Len(atoms) : atoms[i].kind = "bad" THEN "throws"
  ELSE IF test(atoms, str) THEN "true"
  ELSE "false"

\* "true" / "false", or "throws" when the constructor rejects the source
matchesGlobPattern(path, pattern) ==
  IF replaceAll(pattern, "\\", <<"/">>) = <<"*", "*", "/", "*">> THEN "true"
  ELSE testOrThrow(RegExp(globToRegex(replaceAll(pattern, "\\", <<"/">>))),
                   replaceAll(path, "\\", <<"/">>))

\* patterns.some(...): stops at the first match, and at a throw
RECURSIVE somePattern(_, _)
firstHit(m, path, rest) == IF m = "false" THEN somePattern(path, rest) ELSE m

somePattern(path, patterns) ==
  IF patterns = <<>> THEN "false"
  ELSE firstHit(matchesGlobPattern(path, trim(Head(patterns))), path, Tail(patterns))

\* matchesFilePattern on the pattern text (the executor's model above keeps
\* only its outcome per file, as the hook's scope)
matchesFilePatternText(path, pattern) ==
  IF pattern = <<>> \/ pattern = <<"*", "*", "/", "*">> THEN "true"
  ELSE somePattern(path, split(pattern, <<>>))

AllTs == <<"*", "*", "/", "*", ".", "t", "s">>
AllFiles == <<"*", "*", "/", "*">>
TwoKinds == <<"*", ".", "a", ",", " ", "*", ".", "t", "s">>
UnclosedClass == <<"[", "a">>
UnclosedGroup == <<"(", "a">>
Patterns == {AllTs, AllFiles, TwoKinds, <<>>, UnclosedClass, UnclosedGroup}

\* the pattern has a piece whose regular expression source is not valid
Malformed(pattern) ==
  \E i \in 1..Len(split(pattern, <<>>)) :
    testOrThrow(RegExp(globToRegex(
      replaceAll(trim(split(pattern, <<>>)[i]), "\\", <<"/">>))), <<>>) = "throws"

\* a hook with one of the patterns receives an event for one of the paths
InitMatch ==
  /\ Init
  /\ hooks = SoloSingle

MatchStart ==
  /\ matched = "idle"
  /\ \E p \in Paths, g \in Patterns :
    /\ filePath' = p
    /\ filePattern' = g
    /\ matched' = "called"
    /\ UNCHANGED <<hooks, pendingReg, fileWatchers, lastExecution, processingFiles,
                   hookGeneratedFiles, runningHooks, executionQueue, arrays, tasks,
                   dequeued, now, disposed, cmds, cooldownCall>>

MatchFile ==
  /\ matched = "called"
  /\ matched' = matchesFilePatternText(filePath, filePattern)
  /\ UNCHANGED <<hooks, pendingReg, fileWatchers, lastExecution, processingFiles,
                 hookGeneratedFiles, runningHooks, executionQueue, arrays, tasks,
                 dequeued, now, disposed, cmds, filePath, filePattern,
                 cooldownCall>>

NextMatch == MatchStart \/ MatchFile

SpecMatch == InitMatch /\ [][NextMatch]_vars

(* --------------------------- the cooldown test ------------------------ *)
\* canExecuteAfterCooldown called directly (as the test suite does) on an
\* executor whose lastExecution holds entries of several ages.
CooldownKeys == {hookFileKey("h1", "f1"), hookFileKey("h1", "f2"), hookFileKey("h2", "f1")}
CooldownNow == StartTime + COOLDOWN_MS + 1
Elapsed == {0, 1, COOLDOWN_MS - 1, COOLDOWN_MS, COOLDOWN_MS + 1}

InitCooldown ==
  /\ hooks = Trio
  /\ pendingReg = {}
  /\ fileWatchers = SelectSeq(StoredOrder, LAMBDA h : hooks[h].isActive)
  /\ now = CooldownNow
  /\ \E keys \in SUBSET CooldownKeys :
       lastExecution \in [keys -> {CooldownNow - e : e \in Elapsed}]
  /\ processingFiles = {}
  /\ hookGeneratedFiles = {}
  /\ runningHooks = EmptyMap
  /\ executionQueue = EmptyMap
  /\ arrays = EmptyMap
  /\ tasks = <<>>
  /\ dequeued = <<>>
  /\ disposed = FALSE
  /\ cmds = 0
  /\ filePath = <<>>
  /\ filePattern = <<>>
  /\ matched = "idle"
  /\ cooldownCall = NoCooldownCall

CheckCooldown ==
  /\ ~cooldownCall.called
  /\ \E key \in CooldownKeys :
       cooldownCall' = [called |-> TRUE, key |-> key,
                        result |-> canExecuteAfterCooldown(Cur, key)]
  /\ UNCHANGED <<hooks, pendingReg, fileWatchers, lastExecution, processingFiles,
                 hookGeneratedFiles, runningHooks, executionQueue, arrays, tasks,
                 dequeued, now, disposed, cmds, filePath, filePattern, matched>>

NextCooldown == CheckCooldown

SpecCooldown == InitCooldown /\ [][NextCooldown]_vars

(* ------------------------------ claims -------------------------------- *)
\* the handler calls made by the step
NewCalls == (DOMAIN tasks') \ (DOMAIN tasks)
ModeOf(h) == hooks[h].executionMode
\* the executions of hook h in flight
InFlightOf(h) == {t \in DOMAIN tasks : tasks[t].hook = h /\ InFlight(tasks[t])}

\* C1: for every file path, the executions dispatched through that file's
\* queue never overlap, whatever the execution modes: no two executions for
\* the same file are in flight at the same time.
C1_NoOverlapPerFile ==
  \A a, b \in DOMAIN tasks :
    (a # b /\ tasks[a].file = tasks[b].file)
      => ~(InFlight(tasks[a]) /\ InFlight(tasks[b]))

\* C2: entries enqueued for one file by one event (A priority 1, B priority
\* 10, C priority 5, before any of them has run) are dequeued in descending
\* priority, equal priorities in enqueue order: B, C, A.
C2_PriorityOrder ==
  \A i, j \in 1..Len(dequeued) :
    (i < j /\ tasks[dequeued[i]].batch = tasks[dequeued[j]].batch)
      => LET pi == hooks[tasks[dequeued[i]].hook].priority
             pj == hooks[tasks[dequeued[j]].hook].priority
         IN  pi > pj \/ (pi = pj /\ dequeued[i] < dequeued[j])

C4_Step ==
  \A t \in NewCalls :
    LET r == tasks'[t]
    IN  ModeOf(r.hook) = "multiple" =>
          /\ r.drop \notin {"running", "cooldown"}
          /\ ( /\ r.file \in hooks[r.hook].scope
               /\ r.file \notin hookGeneratedFiles
               /\ \A u \in InFlightOf(r.hook) : tasks[u].file # r.file )
             => r.begins = 1

C4_MultipleNeverBlocked == [][C4_Step]_vars

\* C4 witness: three executions of one multiple-mode hook, for three distinct
\* files, in flight at the same time
C4_Witness ==
  \E a, b, c \in DOMAIN tasks :
    /\ ModeOf(tasks[a].hook) = "multiple"
    /\ tasks[b].hook = tasks[a].hook /\ tasks[c].hook = tasks[a].hook
    /\ Cardinality({tasks[a].file, tasks[b].file, tasks[c].file}) = 3
    /\ InFlight(tasks[a]) /\ InFlight(tasks[b]) /\ InFlight(tasks[c])

\* C5: a trigger of a restart-mode hook that arrives while the hook is running
\* (same or another file) signals the running execution's handle and, once
\* its 100 ms wait is over, has begun a new execution, whether or not the old
\* execution has settled.
C5_RestartBeginsNew ==
  \A t \in DOMAIN tasks :
    ( /\ ModeOf(tasks[t].hook) = "restart"
      /\ tasks[t].prev # {}
      /\ tasks[t].pc # "restartWait" )
    => /\ tasks[t].begins = 1
       /\ \A p \in tasks[t].prev : tasks[p].aborted

\* C6: the event for a file that carries a generated-file marker, delivered as
\* one handleFileEvent call to each subscribed hook, begins no execution of
\* any hook.
C6_Step ==
  \A t \in NewCalls :
    ( /\ tasks'[t].type \in {"save", "change", "open"}
      /\ tasks'[t].file \in hookGeneratedFiles )
    => tasks'[t].begins = 0

C6_MarkedEventStartsNothing == [][C6_Step]_vars

\* C7: a generated-file marker is single-use: the next trigger event for a
\* marked file is discarded and consumes the marker, whatever the hook's
\* pattern and mode, and a call for a file that carries no marker (any more)
\* is not discarded by the suppression check.
C7_Step ==
  \A t \in NewCalls :
    IF tasks'[t].file \in hookGeneratedFiles /\ t = Len(tasks) + 1
      THEN /\ tasks'[t].drop = "generated"
           /\ tasks'[t].file \notin hookGeneratedFiles'
      ELSE tasks'[t].drop # "generated"

C7_MarkerSingleUse == [][C7_Step]_vars

\* C8: a trigger of a single-mode hook for a file whose cooldown entry is
\* younger than COOLDOWN_MS begins no execution; a trigger for a file that has
\* no cooldown entry (never run, or cleared by resetCooldown) begins one when
\* the hook is idle and the event passes the pattern and suppression checks.
C8_Step ==
  \A t \in NewCalls :
    LET r == tasks'[t]
        key == <<r.hook, r.file>>
    IN  ModeOf(r.hook) = "single" =>
          /\ ( /\ key \in DOMAIN lastExecution
               /\ now - lastExecution[key] < COOLDOWN_MS )
             => r.begins = 0
          /\ ( /\ key \notin DOMAIN lastExecution
               /\ r.hook \notin DOMAIN runningHooks
               /\ r.file \in hooks[r.hook].scope
               /\ (IsFileSystemEvent(r) \/ r.file \notin hookGeneratedFiles) )
             => r.begins = 1

C8_CooldownAndReset == [][C8_Step]_vars

\* C8 witness: within one cooldown window (the clock has not advanced) a
\* single-mode hook ran for a file, a second trigger for the file was dropped
\* on cooldown, and a third trigger for it began an execution
C8_Witness ==
  \E a, b, c \in DOMAIN tasks :
    /\ a < b /\ b < c
    /\ ModeOf(tasks[a].hook) = "single"
    /\ tasks[b].hook = tasks[a].hook /\ tasks[c].hook = tasks[a].hook
    /\ tasks[b].file = tasks[a].file /\ tasks[c].file = tasks[a].file
    /\ tasks[a].begins = 1 /\ tasks[a].ends = 1
    /\ tasks[b].drop = "cooldown" /\ tasks[b].begins = 0
    /\ tasks[c].begins = 1
    /\ now = StartTime

\* C9: every runningHooks.set of an execution is matched by exactly one
\* runningHooks.delete in its finally block: an execution never ends more
\* often than it begins, a settled call has as many ends as begins, and once
\* every call has settled runningHooks is empty.
C9_BeginsMatchEnds ==
  /\ \A t \in DOMAIN tasks :
       /\ tasks[t].ends <= tasks[t].begins
       /\ tasks[t].begins <= 1
       /\ tasks[t].pc = "done" => tasks[t].ends = tasks[t].begins
  /\ (\A t \in DOMAIN tasks : tasks[t].pc = "done") => DOMAIN runningHooks = {}

\* C9 witness: all calls have settled, one execution succeeded, one failed
\* and one was cancelled
C9_Witness ==
  /\ \A t \in DOMAIN tasks : tasks[t].pc = "done"
  /\ \E a, b, c \in DOMAIN tasks :
       /\ tasks[a].begins = 1 /\ tasks[a].notes = <<"success">>
       /\ tasks[b].begins = 1 /\ tasks[b].notes = <<"error">>
       /\ tasks[c].begins = 1 /\ tasks[c].notes = <<"stopped">>

\* C10: in every reachable state a hook's isRunning flag is true if and only
\* if runningHooks holds a cancellation handle for the hook id.
C10_IsRunningIffHandle ==
  \A h \in Hooks :
    hooks[h].status = "live"
      => (hooks[h].isRunning <=> h \in DOMAIN runningHooks)

\* C11: an error thrown while executing an entry is caught inside the drain:
\* the call that delivered the trigger settles normally and its drain loop
\* runs to its end, and a later trigger for the same file that passes the
\* hook's own gates (pattern, marker, mode, cooldown) still begins.
C11_Step ==
  /\ \A t \in DOMAIN tasks' :
       (tasks'[t].pc = "done" /\ tasks'[t].by # 0)
         => tasks'[tasks'[t].by].dst = "ended"
  /\ \A t \in NewCalls :
       LET r == tasks'[t]
           key == <<r.hook, r.file>>
       IN  ( /\ \E u \in DOMAIN tasks :
                  tasks[u].file = r.file /\ tasks[u].notes = <<"error">>
             /\ r.file \in hooks[r.hook].scope
             /\ (IsFileSystemEvent(r) \/ r.file \notin hookGeneratedFiles)
             /\ InFlightOf(r.hook) = {}
             /\ ModeOf(r.hook) = "single" =>
                  ( key \notin DOMAIN lastExecution
                    \/ now - lastExecution[key] >= COOLDOWN_MS ) )
           => r.begins = 1

C11_ErrorsStayInDrain == [][C11_Step]_vars

\* C11 witness: an execution for a file failed, and a later call of the same
\* hook for the same file began an execution
C11_Witness ==
  \E u, v \in DOMAIN tasks :
    /\ u < v
    /\ tasks[v].file = tasks[u].file
    /\ tasks[v].hook = tasks[u].hook
    /\ tasks[u].notes = <<"error">>
    /\ tasks[tasks[u].by].dst = "ended"
    /\ tasks[v].begins = 1

C13_Step ==
  \A t \in DOMAIN tasks :
    (tasks[t].aborted /\ tasks'[t].pc # tasks[t].pc)
      => tasks'[t].pc \notin {"send", "mcpPlan", "mcpReason", "mcpSend",
                              "save", "mcpSave"}

C13_NoWorkAfterCancel == [][C13_Step]_vars

\* C15: the executor holds a subscription (a fileWatchers entry) for a hook
\* id only if the manager has that hook and the hook is active; so a
\* registerHook call with an inactive hook leaves it without a subscription.
C15_SubscribedOnlyIfActive ==
  \A i \in 1..Len(fileWatchers) :
    /\ hooks[fileWatchers[i]].status = "live"
    /\ hooks[fileWatchers[i]].isActive

\* C16: while executions of one hook overlap, the execution started last
\* (the one whose handle runningHooks holds) keeps the hook id in runningHooks
\* for as long as it is in flight: no step in which it stays in flight and
\* no execution of the hook begins, so the settling of an older execution
\* too, removes the entry (dispose, which clears every handle, aside).
C16_Step ==
  \A h \in DOMAIN runningHooks :
    LET newest == runningHooks[h]
    IN  (/\ InFlight(tasks[newest]) /\ InFlight(tasks'[newest])
         /\ InFlightOf(h) # {newest}
         /\ \A u \in DOMAIN tasks' :
              tasks'[u].hook = h =>
                tasks'[u].begins = (IF u \in DOMAIN tasks THEN tasks[u].begins ELSE 0)
         /\ ~disposed')
          => h \in DOMAIN runningHooks'

C16_NewestKeepsHandle == [][C16_Step]_vars

\* C17: of the in-flight executions of a restart-mode hook at most one has
\* a cancellation handle that was not signalled: when a new execution has
\* begun, every older one still in flight has been signalled.
C17_RestartOneUnsignalled ==
  \A h \in Hooks :
    ModeOf(h) = "restart"
      => Cardinality({t \in InFlightOf(h) : ~tasks[t].aborted}) <= 1

\* C18: in every execution mode, and whatever stopRunningHook and
\* resetCooldown calls come between the trigger events, at most one
\* invocation of a hook for a file is inside the guarded execution path
\* (executeHookWithChecks / executeHook) at a time.
C18_OneInvocationPerHookFile ==
  \A h \in Hooks, f \in Files :
    Cardinality({t \in InFlightOf(h) : tasks[t].file = f}) <= 1

\* C19: resetCooldown(hookId, filePath) removes only the cooldown entry of
\* that hook and file, resetCooldown(hookId) only the cooldown entries of that
\* hook: the other cooldown entries, the processing markers, the running
\* handles, the generated-file markers and the queues stay as they were.
C19_Step ==
  \A h \in Hooks, f \in Files \cup {NoFile} :
    (/\ ~disposed /\ cmds < MaxCmds /\ hooks[h].status = "live"
     /\ Commit([resetCooldown(Cur, h, f) EXCEPT !.cmds = @ + 1]))
      => /\ DOMAIN lastExecution' =
              {k \in DOMAIN lastExecution :
                 ~(k[1] = h /\ (f = NoFile \/ k[2] = f))}
         /\ \A k \in DOMAIN lastExecution' : lastExecution'[k] = lastExecution[k]
         /\ UNCHANGED <<processingFiles, runningHooks, hookGeneratedFiles,
                        executionQueue, arrays>>

C19_ResetOnlyCooldown == [][C19_Step]_vars

\* C20: an execution that has settled has produced exactly one terminal
\* notification: "stopped" if its cancellation handle was signalled, and
\* otherwise "success" or "error"; a signalled execution reports neither
\* success nor failure.
C20_OneTerminalNotification ==
  \A t \in DOMAIN tasks :
    (tasks[t].begins = 1 /\ tasks[t].ends = 1)
      => /\ Len(tasks[t].notes) = 1
         /\ tasks[t].aborted => tasks[t].notes = <<"stopped">>
         /\ ~tasks[t].aborted => tasks[t].notes[1] \in {"success", "error"}

\* C14: for every path over the bounded alphabet, paths without a directory
\* separator included, matching against the pattern **/*.ts gives exactly
\* path.toLowerCase().endsWith(".ts").
C14_TsPatternIsSuffixTest ==
  (filePattern = AllTs /\ matched \notin {"idle", "called"})
    => ((matched = "true") <=> endsWith(toLowerCase(filePath), <<".", "t", "s">>))

\* C21: an execution marks a path as generated if and only if it wrote and
\* saved that path: a settled execution that wrote f (simple path, TARGET_FILE
\* path or a file_modification step) has marked f, and an execution that did
\* not write has marked nothing.
C21_MarkedIffWrote ==
  \A t \in DOMAIN tasks :
    /\ tasks[t].marked # NoFile => tasks[t].wrote = tasks[t].marked
    /\ (tasks[t].begins = 1 /\ tasks[t].ends = 1)
         => tasks[t].marked = tasks[t].wrote

\* C22: the suppression check applies to events of every kind (save,
\* change, open, create, delete): the handler called first for an event on a
\* path that carries a marker discards it before pattern matching, begins
\* nothing and consumes the marker.
C22_Step ==
  \A t \in NewCalls :
    (t = Len(tasks) + 1 /\ tasks'[t].file \in hookGeneratedFiles)
      => /\ tasks'[t].drop = "generated"
         /\ tasks'[t].begins = 0
         /\ tasks'[t].file \notin hookGeneratedFiles'

C22_EveryKindSuppressed == [][C22_Step]_vars

\* C23: stopRunningHook(hookId) only signals the stored handle. For an id
\* without a handle it changes nothing; for a running hook it signals the
\* execution the handle belongs to and leaves every map as it was; a second
\* call changes nothing further; and the signalled handle stays in
\* runningHooks until that execution settles.
C23_StopFrame ==
  \A h \in Hooks :
    LET s1 == stopRunningHook(Cur, h)
    IN  /\ h \notin DOMAIN runningHooks => s1 = Cur
        /\ h \in DOMAIN runningHooks =>
             s1 = [Cur EXCEPT !.tasks[runningHooks[h]].aborted = TRUE]
        /\ stopRunningHook(s1, h) = s1

C23_Step ==
  /\ C23_StopFrame
  /\ \A h \in DOMAIN runningHooks :
       (/\ tasks[runningHooks[h]].aborted
        /\ InFlight(tasks'[runningHooks[h]])
        /\ ~disposed')
         => h \in DOMAIN runningHooks'

C23_StopOnlySignals == [][C23_Step]_vars

\* C24: a stopRunningHook(hookId) call signals every execution of that hook
\* that is in flight at the time of the call, in every execution mode, several
\* concurrent executions of a multiple-mode hook included.
C24_Step ==
  \A h \in Hooks :
    (/\ ~disposed /\ cmds < MaxCmds /\ hooks[h].status = "live"
     /\ Commit([stopRunningHook(Cur, h) EXCEPT !.hooks[h].isRunning = FALSE,
                                               !.cmds = @ + 1]))
      => \A t \in InFlightOf(h) : tasks'[t].aborted

C24_StopSignalsAll == [][C24_Step]_vars

\* C25: dispose() signals every live handle and leaves runningHooks,
\* executionQueue, lastExecution, processingFiles and hookGeneratedFiles
\* empty, and they stay empty: an execution that was in flight when dispose
\* ran adds nothing to them later.
C25_Step ==
  (~disposed /\ disposed')
    => \A h \in DOMAIN runningHooks : tasks'[runningHooks[h]].aborted

C25_TornDown ==
  disposed => /\ runningHooks = EmptyMap
              /\ executionQueue = EmptyMap
              /\ lastExecution = EmptyMap
              /\ processingFiles = {}
              /\ hookGeneratedFiles = {}

C25_DisposedStaysEmpty == [](C25_TornDown) /\ [][C25_Step]_vars

\* C26: a malformed scope pattern (an unbalanced bracket or parenthesis)
\* makes the matcher answer "no match": matchesFilePattern never throws, so
\* no error escapes handleFileEvent or handleFileSystemEvent, which call it
\* without a try block.
C26_MatcherNeverThrows ==
  (matched \notin {"idle", "called"})
    => /\ matched # "throws"
       /\ Malformed(filePattern) => matched = "false"

\* C27: canExecuteAfterCooldown(key) answers false if and only if
\* lastExecution has an entry for the key and now - lastRun < 5000 ms: true
\* without an entry, true when exactly 5000 ms have passed, and whatever the
\* entries of other hooks or files are.
C27_CooldownIff ==
  cooldownCall.called =>
    (~cooldownCall.result
       <=> /\ cooldownCall.key \in DOMAIN lastExecution
           /\ now - lastExecution[cooldownCall.key] < 5000)

\* C27 witness: the call answered true for a key last run exactly 5000 ms
\* ago while another key ran less than 5000 ms ago and a third has no entry
C27_Witness ==
  /\ cooldownCall.called /\ cooldownCall.result
  /\ cooldownCall.key \in DOMAIN lastExecution
  /\ now - lastExecution[cooldownCall.key] = 5000
  /\ \E k \in DOMAIN lastExecution : now - lastExecution[k] < 5000
  /\ \E k \in CooldownKeys : k \notin DOMAIN lastExecution

PolicyDrops == {"running", "cooldown", "processing"}

C29_Step ==
  LET droppedNow == {t \in DOMAIN tasks' :
                       /\ tasks'[t].drop \in PolicyDrops
                       /\ (t \in DOMAIN tasks => tasks[t].drop = "none")}
      quiet == \A t \in DOMAIN tasks' :
                 IF t \in DOMAIN tasks
                   THEN /\ tasks'[t].begins = tasks[t].begins
                        /\ tasks'[t].ends = tasks[t].ends
                   ELSE tasks'[t].begins = 0
  IN  (droppedNow # {} /\ quiet)
        => /\ UNCHANGED <<lastExecution, runningHooks, processingFiles, hooks>>
           /\ \A t \in DOMAIN tasks : tasks'[t].notes = tasks[t].notes
           /\ \A t \in droppedNow : tasks'[t].notes = <<>>

C29_DroppedTriggerFrame == [][C29_Step]_vars

\* C29 witness: one trigger was dropped on cooldown and another because the
\* hook was running or the file was being processed, and the cooldown entry
\* of the first is older than the clock
C29_Witness ==
  \E b, c \in DOMAIN tasks :
    /\ tasks[b].drop = "cooldown" /\ tasks[b].begins = 0
    /\ tasks[c].drop \in {"running", "processing"} /\ tasks[c].begins = 0
    /\ \E k \in DOMAIN lastExecution : lastExecution[k] < now

\* C30: once unregisterHook(hookId) has returned (the hook was deactivated,
\* updated or deleted) and the hook has not been registered again, no new
\* execution of that hook begins; executions in flight may still settle.
C30_Step ==
  \A t \in DOMAIN tasks' :
    LET h == tasks'[t].hook
        began == tasks'[t].begins > (IF t \in DOMAIN tasks THEN tasks[t].begins ELSE 0)
    IN  (began /\ ~disposed) => \E i \in 1..Len(fileWatchers) : fileWatchers[i] = h

C30_NoBeginAfterUnregister == [][C30_Step]_vars

====
